---- MODULE Spec2Model ----
(***************************************************************************)
(* Model of the music-library dashboard (src/web/app.js).                  *)
(*                                                                         *)
(* Strings are sequences of one-character strings, so that split, trim and *)
(* toLowerCase are computed character by character as the code does.       *)
(* JavaScript objects whose key order matters (Object.entries) are ordered *)
(* maps: sequences of <<key, value>> pairs with distinct keys.             *)
(* An optional value is <<>> (absent) or <<v>> (present).                  *)
(***************************************************************************)
EXTENDS Integers, Sequences, FiniteSets, TLC

VARIABLES
    pc,         \* position of main(): "fetching", "json_stats", "json_files", "done", "failed"
    sres,       \* response to fetch('../data/stats.json'): "pending", "ok", "unparseable", "rejected"
    fres,       \* response to fetch('../data/files.json')
    statsDoc,   \* decoded body of stats.json, once it has arrived
    filesDoc,   \* decoded body of files.json, once it has arrived
    tz,         \* the browser's offset from UTC, in seconds (Date#getFullYear is local time)
    MLV,        \* window.__MLV
    dom,        \* the elements of the page the script writes
    listeners,  \* the event handlers registered so far
    callLog,    \* what the most recent handler did, in order
    threw,      \* the function in which the most recent handler threw, or "none"
    lastCall,   \* history: the argument of the most recent applyGenreFilter call
    fnFiles,    \* library-function harness: the file list under test
    fnCall      \* library-function harness: the last call and its result

vars == <<pc, sres, fres, statsDoc, filesDoc, tz, MLV, dom, listeners, callLog,
          threw, lastCall, fnFiles, fnCall>>

pageVars == <<pc, sres, fres, statsDoc, filesDoc, tz, MLV, dom, listeners, callLog,
              threw, lastCall>>

fnVars == <<fnFiles, fnCall>>

-----------------------------------------------------------------------------
(* Strings *)

Str_all == <<"_", "_", "a", "l", "l", "_", "_">>
Str_unknown == <<"u", "n", "k", "n", "o", "w", "n">>
Str_Unknown == <<"U", "n", "k", "n", "o", "w", "n">>
Str_UNKNOWN == <<"U", "N", "K", "N", "O", "W", "N">>
Str_Rock == <<"R", "o", "c", "k">>
Str_rock == <<"r", "o", "c", "k">>
Str_Pop == <<"P", "o", "p">>
Str_pop == <<"p", "o", "p">>
Str_Jazz == <<"J", "a", "z", "z">>
Str_empty == <<>>

UpperChars == <<"A", "B", "C", "D", "E", "F", "G", "H", "I", "J", "K", "L", "M",
                "N", "O", "P", "Q", "R", "S", "T", "U", "V", "W", "X", "Y", "Z">>
LowerChars == <<"a", "b", "c", "d", "e", "f", "g", "h", "i", "j", "k", "l", "m",
                "n", "o", "p", "q", "r", "s", "t", "u", "v", "w", "x", "y", "z">>

\* String.prototype.toLowerCase, on one character and on a string
LowerOf ==
    [c \in {UpperChars[i] : i \in DOMAIN UpperChars} |->
        LowerChars[CHOOSE i \in DOMAIN UpperChars : UpperChars[i] = c]]

ToLowerChar(c) == IF c \in DOMAIN LowerOf THEN LowerOf[c] ELSE c

ToLowerCase(s) == [i \in DOMAIN s |-> ToLowerChar(s[i])]

\* the character class [,;/|] of the split pattern
GenreDelims == {",", ";", "/", "|"}

\* the white space String.prototype.trim removes
WhiteSpace == {" ", "\t"}

\* String.prototype.split(/[,;/|]+/): a run of delimiters is one separator; a
\* leading or trailing separator leaves an empty piece
RECURSIVE SplitFrom(_, _, _)
SplitFrom(s, i, cur) ==
    IF i > Len(s) THEN <<cur>>
    ELSE IF s[i] \in GenreDelims
         THEN IF i > 1 /\ s[i - 1] \in GenreDelims
              THEN SplitFrom(s, i + 1, cur)
              ELSE <<cur>> \o SplitFrom(s, i + 1, <<>>)
         ELSE SplitFrom(s, i + 1, Append(cur, s[i]))

SplitGenre(s) == SplitFrom(s, 1, <<>>)

RECURSIVE TrimStart(_)
TrimStart(s) ==
    IF s # <<>> /\ Head(s) \in WhiteSpace THEN TrimStart(Tail(s)) ELSE s

RECURSIVE TrimEnd(_)
TrimEnd(s) ==
    IF s # <<>> /\ s[Len(s)] \in WhiteSpace THEN TrimEnd(SubSeq(s, 1, Len(s) - 1)) ELSE s

Trim(s) == TrimEnd(TrimStart(s))

\* Array.prototype.map over a sequence
MapTrim(parts) == [i \in DOMAIN parts |-> Trim(parts[i])]

IsNonEmptyStr(s) == s # <<>>

\* file.genre.split(/[,;/|]+/).map(s=>s.trim()).filter(Boolean)
GenreParts(genre) == SelectSeq(MapTrim(SplitGenre(genre)), IsNonEmptyStr)

-----------------------------------------------------------------------------
(* File records: a record holds only the fields the JSON object has. *)

HasField(r, k) == k \in DOMAIN r

\* JavaScript truthiness of a string field and of a numeric field
TruthyStr(r, k) == HasField(r, k) /\ r[k] # <<>>
TruthyNum(r, k) == HasField(r, k) /\ r[k] # 0

\* null, as a value no text equals (its one element is not a character)
JsNull == <<"null">>

\* truthiness of a selection argument: false for the empty text and for null
TruthyGenre(genre) == genre # <<>> /\ genre # JsNull

\* fileHasGenre with a fault: the target is compared without lower-casing it
FileHasGenre_NoLowerTarget(file, genre) ==
    IF ~TruthyStr(file, "genre") THEN FALSE
    ELSE LET parts == GenreParts(file.genre)
         IN  \E i \in DOMAIN parts : ToLowerCase(parts[i]) = genre

\* fileHasGenre; `file` is always an object here, so !file is not modelled
fileHasGenre(file, genre) ==
    IF ~TruthyStr(file, "genre") THEN FALSE
    ELSE LET parts == GenreParts(file.genre)
         IN  \E i \in DOMAIN parts : ToLowerCase(parts[i]) = ToLowerCase(genre)

\* the predicate of the default filter: genre present, no part "unknown"
NotUnknownFile(f) ==
    IF ~TruthyStr(f, "genre") THEN FALSE
    ELSE LET parts == GenreParts(f.genre)
         IN  ~ \E i \in DOMAIN parts : ToLowerCase(parts[i]) = Str_unknown

\* FilterSeq with a fault: each kept element is put before the ones kept so far
RECURSIVE FilterSeq_Prepend(_, _)
FilterSeq_Prepend(s, keep) ==
    IF s = <<>> THEN <<>>
    ELSE IF keep[1] THEN FilterSeq_Prepend(Tail(s), Tail(keep)) \o <<Head(s)>>
         ELSE FilterSeq_Prepend(Tail(s), Tail(keep))

\* Array.prototype.filter: the kept elements, in their order
RECURSIVE FilterSeq(_, _)
FilterSeq(s, keep) ==
    IF s = <<>> THEN <<>>
    ELSE IF keep[1] THEN <<Head(s)>> \o FilterSeq(Tail(s), Tail(keep))
         ELSE FilterSeq(Tail(s), Tail(keep))

\* getFilteredFiles with a fault: "unknown" is matched in lower case only
getFilteredFiles_ExactCase(files, genre) ==
    IF ~TruthyGenre(genre) \/ genre = Str_all
    THEN FilterSeq(files, [i \in DOMAIN files |->
             TruthyStr(files[i], "genre") /\
             ~ \E j \in DOMAIN GenreParts(files[i].genre) :
                   GenreParts(files[i].genre)[j] = Str_unknown])
    ELSE FilterSeq(files, [i \in DOMAIN files |-> fileHasGenre(files[i], genre)])

\* getFilteredFiles with a fault: "unknown" files are dropped for every selection
getFilteredFiles_AlwaysExclude(files, genre) ==
    IF ~TruthyGenre(genre) \/ genre = Str_all
    THEN FilterSeq(files, [i \in DOMAIN files |-> NotUnknownFile(files[i])])
    ELSE FilterSeq(files, [i \in DOMAIN files |->
             NotUnknownFile(files[i]) /\ fileHasGenre(files[i], genre)])

\* getFilteredFiles with a fault: a selection that matches nothing shows the default
getFilteredFiles_EmptyShowsAll(files, genre) ==
    LET kept == FilterSeq(files, [i \in DOMAIN files |-> fileHasGenre(files[i], genre)])
    IN  IF ~TruthyGenre(genre) \/ genre = Str_all \/ kept = <<>>
        THEN FilterSeq(files, [i \in DOMAIN files |-> NotUnknownFile(files[i])])
        ELSE kept

\* getFilteredFiles; `files` is always an array here, so !files is not modelled
getFilteredFiles(files, genre) ==
    IF ~TruthyGenre(genre) \/ genre = Str_all
    THEN FilterSeq(files, [i \in DOMAIN files |-> NotUnknownFile(files[i])])
    ELSE FilterSeq(files, [i \in DOMAIN files |-> fileHasGenre(files[i], genre)])

-----------------------------------------------------------------------------
(* Ordered maps (JavaScript objects read with Object.entries) and sorting *)

HasKey(m, k) == \E i \in DOMAIN m : m[i][1] = k

Get(m, k) == m[CHOOSE i \in DOMAIN m : m[i][1] = k][2]

\* counts[k] = (counts[k] || 0) + 1; a new key goes last
Increment(m, k) ==
    IF HasKey(m, k)
    THEN [i \in DOMAIN m |-> IF m[i][1] = k THEN <<k, m[i][2] + 1>> ELSE m[i]]
    ELSE Append(m, <<k, 1>>)

\* Array.prototype.slice(0, n)
Slice(s, n) == SubSeq(s, 1, IF Len(s) < n THEN Len(s) ELSE n)

\* Array.prototype.sort((a,b)=>b[1]-a[1]): by count, largest first, stable
RECURSIVE InsertByCountDesc(_, _)
InsertByCountDesc(s, x) ==
    IF s = <<>> THEN <<x>>
    ELSE IF Head(s)[2] >= x[2] THEN <<Head(s)>> \o InsertByCountDesc(Tail(s), x)
         ELSE <<x>> \o s

RECURSIVE SortByCountDesc(_)
SortByCountDesc(s) ==
    IF s = <<>> THEN <<>>
    ELSE InsertByCountDesc(SortByCountDesc(SubSeq(s, 1, Len(s) - 1)), s[Len(s)])

\* Array.prototype.sort((a,b)=>a.year-b.year): by year, smallest first, stable
RECURSIVE InsertByYearAsc(_, _)
InsertByYearAsc(s, x) ==
    IF s = <<>> THEN <<x>>
    ELSE IF Head(s)[1] <= x[1] THEN <<Head(s)>> \o InsertByYearAsc(Tail(s), x)
         ELSE <<x>> \o s

RECURSIVE SortByYearAsc(_)
SortByYearAsc(s) ==
    IF s = <<>> THEN <<>>
    ELSE InsertByYearAsc(SortByYearAsc(SubSeq(s, 1, Len(s) - 1)), s[Len(s)])

\* entries whose key is not "unknown" in any letter case
IsNotUnknownEntry(e) == ToLowerCase(e[1]) # Str_unknown

-----------------------------------------------------------------------------
(* Years *)

Digits == <<"0", "1", "2", "3", "4", "5", "6", "7", "8", "9">>

IsDigit(c) == \E i \in DOMAIN Digits : Digits[i] = c

DigitValue(c) == (CHOOSE i \in DOMAIN Digits : Digits[i] = c) - 1

\* whether /(19|20)\d{2}/ matches the text at position i
YearAt(date, i) ==
    /\ i + 3 <= Len(date)
    /\ \/ date[i] = "1" /\ date[i + 1] = "9"
       \/ date[i] = "2" /\ date[i + 1] = "0"
    /\ IsDigit(date[i + 2])
    /\ IsDigit(date[i + 3])

\* file.date.match(/(19|20)\d{2}/): the leftmost match, as a number (+m[0])
DateMatch(date) ==
    LET hits == {i \in DOMAIN date : YearAt(date, i)}
    IN  IF hits = {} THEN <<>>
        ELSE LET i == CHOOSE a \in hits : \A b \in hits : a <= b
             IN  << 1000 * DigitValue(date[i]) + 100 * DigitValue(date[i + 1])
                    + 10 * DigitValue(date[i + 2]) + DigitValue(date[i + 3]) >>

IsLeapYear(y) == (y % 4 = 0 /\ y % 100 # 0) \/ y % 400 = 0

DaysInYear(y) == IF IsLeapYear(y) THEN 366 ELSE 365

SecondsPerDay == 86400

EpochYear == 1970

\* the calendar year of the day that is d days from 1 January 1970
RECURSIVE YearOfDay(_, _)
YearOfDay(y, d) ==
    IF d < 0 THEN YearOfDay(y - 1, d + DaysInYear(y - 1))
    ELSE IF d >= DaysInYear(y) THEN YearOfDay(y + 1, d - DaysInYear(y))
         ELSE y

\* new Date(epoch * 1000).getFullYear(), in the browser's time zone
GetFullYear(epoch, offset) == YearOfDay(EpochYear, (epoch + offset) \div SecondsPerDay)

\* the year as an optional value: <<>> is null; `file` is always an object here
getYearFromFile(file, offset) ==
    LET m == IF TruthyStr(file, "date") THEN DateMatch(file.date) ELSE <<>>
    IN  IF m # <<>> THEN m
        ELSE IF TruthyNum(file, "mtime_epoch")
             THEN <<GetFullYear(file.mtime_epoch, offset)>>
             ELSE <<>>

-----------------------------------------------------------------------------
(* The documents the server may return. *)

Str_A == <<"A", "b", "b", "a">>
Str_B == <<"B", "j", "o", "r", "k">>

Percentiles == [p25 |-> 100, p50 |-> 200, p75 |-> 300, p90 |-> 0]
RockPercentiles == [p25 |-> 110, p50 |-> 210, p75 |-> 310, p90 |-> 410]

\* a statistics document with every key the script reads, and year_counts,
\* which it never reads
FullStats ==
    [summary |-> [total_files_found |-> 7, files_scanned |-> 6, files_with_errors |-> 1,
                  unique_genres |-> 4, unique_artists |-> 2],
     durations |-> [mean |-> 200],
     genre_counts |-> << <<Str_Pop, 2>>, <<Str_Unknown, 1>>, <<Str_Rock, 3>>, <<Str_Jazz, 2>> >>,
     genre_percentages |-> << <<Str_Pop, 250>>, <<Str_Unknown, 125>>, <<Str_Rock, 375>>,
                              <<Str_Jazz, 20>> >>,
     top_genres |-> << <<Str_Rock, 3>>, <<Str_Pop, 2>>, <<Str_Jazz, 2>> >>,
     artist_counts |-> << <<Str_A, 3>>, <<Str_B, 2>> >>,
     top_artists_per_genre |-> << <<Str_Rock, << <<Str_A, 2>>, <<Str_B, 1>> >> >> >>,
     duration_bins |-> << <<"<2m", 1>>, <<"2-4m", 3>>, <<"12m+", 2>> >>,
     duration_percentiles |-> Percentiles,
     per_genre_duration_bins |-> << <<Str_Rock, << <<"2-4m", 2>>, <<"4-6m", 1>> >> >> >>,
     per_genre_duration_stats |-> << <<Str_Rock, [percentiles |-> RockPercentiles]>> >>,
     year_counts |-> << <<1998, 1>> >>]

Without(doc, key) == [k \in (DOMAIN doc) \ {key} |-> doc[k]]

\* a document whose genre keys include "unknown" in capitals and the empty text
OddKeysStats ==
    [FullStats EXCEPT !.genre_counts =
        << <<Str_Pop, 2>>, <<Str_UNKNOWN, 1>>, <<Str_empty, 1>>, <<Str_Rock, 3>> >>]

\* the full document, the full document with one key absent, and the one
\* with the odd genre keys
StatsDocs ==
    {FullStats, OddKeysStats} \cup {Without(FullStats, key) : key \in DOMAIN FullStats}

\* text of the date field
Str_date1998 == <<"R", "e", "l", " ", "1", "9", "9", "8", "-", "0", "4">>
Str_dateNone == <<"n", "/", "a", " ", "2", "1", "5", "0">>

\* durations are in half seconds, so that a fractional duration can be drawn
Seconds(n) == 2 * n

PageFilePool ==
    { [genre |-> Str_Rock, artist |-> Str_A, duration |-> Seconds(119),
       date |-> Str_date1998, mtime_epoch |-> 1000000000],
      [genre |-> Str_Rock \o <<";", " ">> \o Str_Pop, artist |-> Str_B,
       duration |-> Seconds(120), mtime_epoch |-> 946684800],
      [genre |-> Str_Pop \o <<"/">> \o Str_Unknown, artist |-> Str_B,
       duration |-> Seconds(719), mtime_epoch |-> 0],
      [genre |-> Str_Pop] }

MaxFiles == 2

FileLists == UNION {[1..n -> PageFilePool] : n \in 0..MaxFiles}

TimeZones == {0, -18000}

-----------------------------------------------------------------------------
(* The state of the page before the script has drawn anything. *)

InitialEl == [kind |-> "initial", rows |-> <<>>]

ElementIds == {"summarytext", "duration_bins", "barchart", "genrepie", "artistchart",
               "durhist", "yearhist", "timeline", "genreradar"}

\* the select control starts with the one static option the script relies on
InitialDom ==
    [genre_select |-> [options |-> <<Str_all>>, value |-> Str_all],
     summarytext |-> InitialEl, duration_bins |-> InitialEl, barchart |-> InitialEl,
     genrepie |-> InitialEl, artistchart |-> InitialEl, durhist |-> InitialEl,
     yearhist |-> InitialEl, timeline |-> InitialEl, genreradar |-> InitialEl]

NoDoc == [parsed |-> FALSE]

\* PageInit with a fault: the page comes with a genre option and the 'change'
\* listener is registered when the script loads, before the fetches
PageInit_ListenerAtLoad ==
    /\ pc = "fetching"
    /\ sres = "pending"
    /\ fres = "pending"
    /\ statsDoc = NoDoc
    /\ filesDoc = NoDoc
    /\ MLV = [defined |-> FALSE]
    /\ dom = [InitialDom EXCEPT !.genre_select.options = <<Str_all, Str_Rock>>]
    /\ listeners = {"change"}
    /\ callLog = <<>>
    /\ threw = "none"
    /\ lastCall = Str_all

PageInit ==
    /\ pc = "fetching"
    /\ sres = "pending"
    /\ fres = "pending"
    /\ statsDoc = NoDoc
    /\ filesDoc = NoDoc
    /\ MLV = [defined |-> FALSE]
    /\ dom = InitialDom
    /\ listeners = {}
    /\ callLog = <<>>
    /\ threw = "none"
    /\ lastCall = Str_all

-----------------------------------------------------------------------------
(* The rendering functions.  Each takes the page and gives [ok, dom]: the   *)
(* page as the function left it, and whether it returned (ok) or threw.     *)
(* Only what a function puts in an element is kept: the data rows it draws, *)
(* not the geometry, colours or transitions.                                *)

Returned(d) == [ok |-> TRUE, dom |-> d]
Thrown(d) == [ok |-> FALSE, dom |-> d]

\* element.innerHTML = ''
Cleared == [kind |-> "cleared", rows |-> <<>>]

renderSummary(stats, files, selectedGenre, d) ==
    IF ~HasField(stats, "summary") THEN Thrown(d)
    ELSE
    LET sm == stats.summary
        unknownCount ==
            IF /\ HasField(stats, "genre_counts")
               /\ HasKey(stats.genre_counts, Str_Unknown)
               /\ Get(stats.genre_counts, Str_Unknown) # 0
            THEN Get(stats.genre_counts, Str_Unknown) ELSE 0
        out == << <<"Total files found", <<sm.total_files_found>> >>,
                  <<"Files scanned", <<sm.files_scanned>> >>,
                  <<"Files with errors", <<sm.files_with_errors>> >>,
                  <<"Unique genres", <<sm.unique_genres>> >>,
                  <<"Unique artists", <<sm.unique_artists>> >>,
                  <<"Duration stats (mean)",
                    IF HasField(stats, "durations") THEN <<stats.durations.mean>> ELSE <<>> >>,
                  <<"Unknown-genre files (excluded from charts)", <<unknownCount>> >> >>
        filtered == getFilteredFiles(files, selectedGenre)
        all == IF TruthyGenre(selectedGenre) /\ selectedGenre # Str_all
               THEN Append(out, <<"Filtered", <<Len(filtered)>>, selectedGenre>>)
               ELSE out
    IN  Returned([d EXCEPT !.summarytext = [kind |-> "text", rows |-> all]])

renderDurationBins(stats, d) ==
    IF ~HasField(stats, "duration_bins")
    THEN Returned([d EXCEPT !.duration_bins = Cleared])
    ELSE Returned([d EXCEPT !.duration_bins = [kind |-> "spans", rows |-> stats.duration_bins]])

\* .slice(0,20) of the genre bars, .slice(0,30) of the pie, .slice(0,6) of the
\* radar, .slice(0,20) of the artists
TopGenreBars == 20
TopPieSlices == 30
TopRadarAxes == 6
TopArtists == 20

\* opacities, in hundredths
Opaque == 100
DimmedBar == 40
DimmedSlice == 25
DimmedLabel == 45

renderGenreBar(stats, selectedGenre, d) ==
    LET d1 == [d EXCEPT !.barchart = Cleared]
    IN  IF ~HasField(stats, "genre_counts") THEN Thrown(d1)
        ELSE
        LET data == Slice(SortByCountDesc(SelectSeq(stats.genre_counts, IsNotUnknownEntry)),
                          TopGenreBars)
            rows == [i \in DOMAIN data |->
                       [genre |-> data[i][1], count |-> data[i][2],
                        accent |-> TruthyGenre(selectedGenre) /\ selectedGenre = data[i][1],
                        opacity |-> IF ~TruthyGenre(selectedGenre) \/ selectedGenre = data[i][1]
                                    THEN Opaque ELSE DimmedBar]]
        IN  Returned([d1 EXCEPT !.barchart = [kind |-> "chart", rows |-> rows]])

\* a slice is labelled when its share is above 0.02; shares are in thousandths
LabelShare == 20

renderGenrePie(stats, selectedGenre, d) ==
    LET d1 == [d EXCEPT !.genrepie = Cleared]
    IN  IF ~HasField(stats, "genre_counts") THEN Thrown(d1)
        ELSE
        LET kept == SelectSeq(stats.genre_counts, IsNotUnknownEntry)
        IN  IF kept # <<>> /\ ~HasField(stats, "genre_percentages") THEN Thrown(d1)
            ELSE
            LET data == Slice(SortByCountDesc(kept), TopPieSlices)
                pct(g) == IF HasKey(stats.genre_percentages, g)
                          THEN <<Get(stats.genre_percentages, g)>> ELSE <<>>
                dim == TruthyGenre(selectedGenre) /\ selectedGenre # Str_all
                rows == [i \in DOMAIN data |->
                           [genre |-> data[i][1], count |-> data[i][2],
                            pct |-> pct(data[i][1]),
                            label |-> pct(data[i][1]) # <<>> /\ pct(data[i][1])[1] > LabelShare,
                            opacity |-> IF dim /\ data[i][1] # selectedGenre
                                        THEN DimmedSlice ELSE Opaque]]
            IN  Returned([d1 EXCEPT !.genrepie = [kind |-> "chart", rows |-> rows]])

\* whether the number written a is at most the number written b; both are
\* texts of digits without leading zeros
RECURSIVE DigitsAtMost(_, _)
DigitsAtMost(a, b) ==
    IF Len(a) # Len(b) THEN Len(a) < Len(b)
    ELSE IF a = <<>> THEN TRUE
    ELSE IF a[1] # b[1] THEN DigitValue(a[1]) < DigitValue(b[1])
    ELSE DigitsAtMost(Tail(a), Tail(b))

\* the largest array index of the language, 2^32 - 2, as it is written
MaxArrayIndex == <<"4", "2", "9", "4", "9", "6", "7", "2", "9", "4">>

\* whether a property name is an array index: the digits of a number up to
\* MaxArrayIndex as the language writes it, without leading zeros
IsArrayIndex(k) ==
    /\ k # <<>>
    /\ \A i \in DOMAIN k : IsDigit(k[i])
    /\ Len(k) = 1 \/ k[1] # "0"
    /\ DigitsAtMost(k, MaxArrayIndex)

IsArrayIndexEntry(e) == IsArrayIndex(e[1])

IsNameEntry(e) == ~IsArrayIndex(e[1])

\* the entries keyed by array indices, by rising number; equal keys do not occur
RECURSIVE InsertByIndexAsc(_, _)
InsertByIndexAsc(s, x) ==
    IF s = <<>> THEN <<x>>
    ELSE IF DigitsAtMost(Head(s)[1], x[1]) THEN <<Head(s)>> \o InsertByIndexAsc(Tail(s), x)
         ELSE <<x>> \o s

RECURSIVE SortByIndexAsc(_)
SortByIndexAsc(s) ==
    IF s = <<>> THEN <<>>
    ELSE InsertByIndexAsc(SortByIndexAsc(SubSeq(s, 1, Len(s) - 1)), s[Len(s)])

\* Object.entries of an object keyed by texts: the array indices first, by
\* rising number, then the other names in the order they were first written
ObjectEntries(m) ==
    SortByIndexAsc(SelectSeq(m, IsArrayIndexEntry)) \o SelectSeq(m, IsNameEntry)

\* ArtistCounts with a fault: a file without artist is counted under the empty name
RECURSIVE ArtistCounts_CountsEveryFile(_, _)
ArtistCounts_CountsEveryFile(files, counts) ==
    IF files = <<>> THEN counts
    ELSE ArtistCounts_CountsEveryFile(Tail(files),
             Increment(counts, IF HasField(Head(files), "artist") THEN Head(files).artist
                               ELSE Str_empty))

\* the fallback of renderArtistBar: files per non-empty artist, in first-seen order
RECURSIVE ArtistCounts(_, _)
ArtistCounts(files, counts) ==
    IF files = <<>> THEN counts
    ELSE ArtistCounts(Tail(files),
                      IF TruthyStr(Head(files), "artist")
                      THEN Increment(counts, Head(files).artist) ELSE counts)

NoDataText == "No data for selected genre"

renderArtistBar(genre, stats, files, d) ==
    LET d1 == [d EXCEPT !.artistchart = Cleared]
    IN  IF ~TruthyGenre(genre) /\ ~HasField(stats, "artist_counts") THEN Thrown(d1)
        ELSE
        LET list == IF /\ HasField(stats, "top_artists_per_genre")
                       /\ HasKey(stats.top_artists_per_genre, genre)
                    THEN Get(stats.top_artists_per_genre, genre) ELSE <<>>
            data == IF ~TruthyGenre(genre) THEN Slice(stats.artist_counts, TopArtists)
                    ELSE IF list # <<>> THEN list
                    ELSE Slice(SortByCountDesc(ObjectEntries(
                                   ArtistCounts(getFilteredFiles(files, genre), <<>>))),
                               TopArtists)
            from == IF ~TruthyGenre(genre) THEN "global"
                    ELSE IF list # <<>> THEN "per_genre" ELSE "fallback"
        IN  IF data = <<>>
            THEN Returned([d1 EXCEPT !.artistchart =
                     [kind |-> "text", rows |-> <<NoDataText>>, from |-> from]])
            ELSE Returned([d1 EXCEPT !.artistchart =
                     [kind |-> "chart", from |-> from,
                      rows |-> [i \in DOMAIN data |->
                                   [artist |-> data[i][1], count |-> data[i][2]]]]])

\* Math.round of a number given in half seconds: halves round up
MathRound(halves) == (halves + 1) \div 2

\* DurationLabel with a fault: 120 s still counts as under two minutes
DurationLabel_LateBoundary(file) ==
    LET dur == MathRound(IF TruthyNum(file, "duration") THEN file.duration ELSE 0)
    IN  IF dur <= 120 THEN "<2m"
        ELSE IF dur < 240 THEN "2-4m"
        ELSE IF dur < 360 THEN "4-6m"
        ELSE IF dur < 720 THEN "6-12m" ELSE "12m+"

\* Math.round(f.duration || 0) and the label of line 103
DurationLabel(file) ==
    LET dur == MathRound(IF TruthyNum(file, "duration") THEN file.duration ELSE 0)
    IN  IF dur < 120 THEN "<2m"
        ELSE IF dur < 240 THEN "2-4m"
        ELSE IF dur < 360 THEN "4-6m"
        ELSE IF dur < 720 THEN "6-12m" ELSE "12m+"

\* DurationCounts with a fault: a file without duration is counted nowhere
RECURSIVE DurationCounts_SkipsNoDuration(_, _)
DurationCounts_SkipsNoDuration(files, counts) ==
    IF files = <<>> THEN counts
    ELSE DurationCounts_SkipsNoDuration(Tail(files),
             IF HasField(Head(files), "duration")
             THEN Increment(counts, DurationLabel(Head(files))) ELSE counts)

\* the fallback of renderDurationDistribution: files per label, in first-seen order
RECURSIVE DurationCounts(_, _)
DurationCounts(files, counts) ==
    IF files = <<>> THEN counts
    ELSE DurationCounts(Tail(files), Increment(counts, DurationLabel(Head(files))))

PercentileKeys == <<"p25", "p50", "p75", "p90">>

\* `${k}: ${percentiles[k] ? Math.round(percentiles[k]) : 'N/A'}s`
PercentileLines(p) ==
    [i \in DOMAIN PercentileKeys |->
        <<PercentileKeys[i],
          IF p[PercentileKeys[i]] # 0 THEN <<p[PercentileKeys[i]]>> ELSE <<>> >>]

renderDurationDistribution(stats, genre, files, d) ==
    LET d1 == [d EXCEPT !.durhist = Cleared]
        global == IF HasField(stats, "duration_bins") THEN stats.duration_bins ELSE <<>>
        perGenre == /\ TruthyGenre(genre)
                    /\ HasField(stats, "per_genre_duration_bins")
                    /\ HasKey(stats.per_genre_duration_bins, genre)
        bins == IF perGenre THEN Get(stats.per_genre_duration_bins, genre) ELSE global
        percentiles ==
            IF /\ TruthyGenre(genre)
               /\ HasField(stats, "per_genre_duration_stats")
               /\ HasKey(stats.per_genre_duration_stats, genre)
            THEN <<Get(stats.per_genre_duration_stats, genre).percentiles>>
            ELSE IF HasField(stats, "duration_percentiles")
                 THEN <<stats.duration_percentiles>> ELSE <<>>
        fallback == TruthyGenre(genre) /\ bins = <<>>
        shown == IF fallback THEN DurationCounts(getFilteredFiles(files, genre), <<>>)
                 ELSE bins
        from == IF fallback THEN "fallback" ELSE IF perGenre THEN "per_genre" ELSE "global"
        data == SortByCountDesc(shown)
    IN  IF data = <<>> /\ percentiles # <<>>
        THEN Returned([d1 EXCEPT !.durhist =
                 [kind |-> "percentiles", rows |-> PercentileLines(percentiles[1]),
                  from |-> from]])
        ELSE Returned([d1 EXCEPT !.durhist =
                 [kind |-> "chart", rows |-> data, from |-> from,
                  legend |-> IF percentiles # <<>> THEN PercentileLines(percentiles[1])
                             ELSE <<>>]])

\* YearCounts with a fault: a file without year is counted under year 0
RECURSIVE YearCounts_AbsentAsZero(_, _)
YearCounts_AbsentAsZero(years, counts) ==
    IF years = <<>> THEN counts
    ELSE YearCounts_AbsentAsZero(Tail(years),
             Increment(counts, IF Head(years) # <<>> THEN Head(years)[1] ELSE 0))

\* byYear[y] = (byYear[y]||0)+1 for each year that is truthy
RECURSIVE YearCounts(_, _)
YearCounts(years, counts) ==
    IF years = <<>> THEN counts
    ELSE YearCounts(Tail(years),
                    IF Head(years) # <<>> /\ Head(years)[1] # 0
                    THEN Increment(counts, Head(years)[1]) ELSE counts)

renderYearHistogramFromFiles(files, selectedGenre, offset, d) ==
    LET d1 == [d EXCEPT !.yearhist = Cleared]
        kept == getFilteredFiles(files, selectedGenre)
        byYear == YearCounts([i \in DOMAIN kept |-> getYearFromFile(kept[i], offset)], <<>>)
        entries == SortByYearAsc(byYear)
    IN  IF entries = <<>> THEN Returned(d1)
        ELSE Returned([d1 EXCEPT !.yearhist = [kind |-> "chart", rows |-> entries]])

\* renderAddedTimelineFromFiles with a fault: a file without mtime_epoch is dropped
renderAddedTimelineFromFiles_SkipsNoMtime(files, selectedGenre, offset, d) ==
    LET d1 == [d EXCEPT !.timeline = Cleared]
        kept == getFilteredFiles(files, selectedGenre)
        byYear == YearCounts(
                      [i \in DOMAIN kept |->
                          IF TruthyNum(kept[i], "mtime_epoch")
                          THEN <<GetFullYear(kept[i].mtime_epoch, offset)>> ELSE <<>>], <<>>)
        entries == SortByYearAsc(byYear)
    IN  IF entries = <<>> THEN Returned(d1)
        ELSE Returned([d1 EXCEPT !.timeline = [kind |-> "chart", rows |-> entries]])

renderAddedTimelineFromFiles(files, selectedGenre, offset, d) ==
    LET d1 == [d EXCEPT !.timeline = Cleared]
        kept == getFilteredFiles(files, selectedGenre)
        byYear == YearCounts(
                      [i \in DOMAIN kept |->
                          <<GetFullYear(IF TruthyNum(kept[i], "mtime_epoch")
                                        THEN kept[i].mtime_epoch ELSE 0, offset)>>], <<>>)
        entries == SortByYearAsc(byYear)
    IN  IF entries = <<>> THEN Returned(d1)
        ELSE Returned([d1 EXCEPT !.timeline = [kind |-> "chart", rows |-> entries]])

renderGenreRadar(stats, highlightGenre, d) ==
    LET d1 == [d EXCEPT !.genreradar = Cleared]
    IN  IF ~HasField(stats, "top_genres") THEN Thrown(d1)
        ELSE
        LET top == Slice(stats.top_genres, TopRadarAxes)
        IN  IF top = <<>> THEN Returned(d1)
            ELSE IF ~HasField(stats, "genre_percentages") THEN Thrown(d1)
            ELSE
            LET rows == [i \in DOMAIN top |->
                           [label |-> top[i][1],
                            value |-> IF HasKey(stats.genre_percentages, top[i][1])
                                      THEN Get(stats.genre_percentages, top[i][1]) ELSE 0,
                            bold |-> TruthyGenre(highlightGenre) /\ top[i][1] = highlightGenre,
                            opacity |-> IF TruthyGenre(highlightGenre)
                                           /\ top[i][1] # highlightGenre
                                        THEN DimmedLabel ELSE Opaque]]
            IN  Returned([d1 EXCEPT !.genreradar = [kind |-> "chart", rows |-> rows]])

-----------------------------------------------------------------------------
(* The Filter Controller and startup *)

\* HTMLSelectElement.value = v: the option with that value is selected; with
\* no such option the control is left with no selection and reads ''
SetSelectValue(select, v) ==
    [select EXCEPT !.value = IF \E i \in DOMAIN select.options : select.options[i] = v
                             THEN v ELSE <<>>]

\* selectedGenre === '__all__' ? null : selectedGenre
GenreOrNull(selectedGenre) == IF selectedGenre = Str_all THEN JsNull ELSE selectedGenre

\* RenderOrder with a fault: the radar is drawn with the other genre views
RenderOrder_RadarWithGenreViews ==
    <<"renderSummary", "renderDurationBins", "renderGenreBar", "renderGenrePie",
      "renderGenreRadar", "renderArtistBar", "renderDurationDistribution",
      "renderYearHistogramFromFiles", "renderAddedTimelineFromFiles">>

\* the calls of applyGenreFilter, in the order of its statements
RenderOrder ==
    <<"renderSummary", "renderDurationBins", "renderGenreBar", "renderGenrePie",
      "renderArtistBar", "renderDurationDistribution", "renderYearHistogramFromFiles",
      "renderAddedTimelineFromFiles", "renderGenreRadar">>

\* one call of applyGenreFilter; c holds its locals stats, files, selectedGenre,
\* the time zone, and the selection held in window.__MLV
RenderCall(name, c, d) ==
    CASE name = "renderSummary" -> renderSummary(c.stats, c.files, c.selectedGenre, d)
      [] name = "renderDurationBins" -> renderDurationBins(c.stats, d)
      [] name = "renderGenreBar" -> renderGenreBar(c.stats, c.selectedGenre, d)
      [] name = "renderGenrePie" -> renderGenrePie(c.stats, c.selectedGenre, d)
      [] name = "renderArtistBar" ->
             renderArtistBar(GenreOrNull(c.selectedGenre), c.stats, c.files, d)
      [] name = "renderDurationDistribution" ->
             renderDurationDistribution(c.stats, GenreOrNull(c.selectedGenre), c.files, d)
      [] name = "renderYearHistogramFromFiles" ->
             renderYearHistogramFromFiles(c.files, c.selectedGenre, c.offset, d)
      [] name = "renderAddedTimelineFromFiles" ->
             renderAddedTimelineFromFiles(c.files, c.selectedGenre, c.offset, d)
      [] name = "renderGenreRadar" ->
             renderGenreRadar(c.stats, GenreOrNull(c.selectedGenre), d)

\* StateAfterCall with a fault: renderGenreRadar sorts stats.top_genres in
\* place, smallest count first, instead of working on a copy
StateAfterCall_RadarSortsInPlace(name, c) ==
    IF name = "renderGenreRadar" /\ HasField(c.stats, "top_genres")
    THEN [c EXCEPT !.stats.top_genres = [i \in DOMAIN @ |-> @[Len(@) + 1 - i]]]
    ELSE c

\* what a call leaves of the objects it can reach: stats and files, which it
\* is handed, and the selection in window.__MLV. The views read them and
\* sort, slice and filter copies only, so all are as before the call
StateAfterCall(name, c) == c

\* the calls run one after the other; a call that throws ends the handler
RECURSIVE RunCalls(_, _, _, _)
RunCalls(names, c, d, log) ==
    IF names = <<>> THEN [c |-> c, dom |-> d, log |-> log, threw |-> "none"]
    ELSE LET r == RenderCall(Head(names), c, d)
             c1 == StateAfterCall(Head(names), c)
         IN  IF r.ok THEN RunCalls(Tail(names), c1, r.dom, Append(log, Head(names)))
             ELSE [c |-> c1, dom |-> r.dom, log |-> Append(log, Head(names)),
                   threw |-> Head(names)]

\* WriteSelection with a fault: the assignment is missing
WriteSelection_Skip(mlv, selectedGenre) == mlv

\* window.__MLV.selectedGenre = selectedGenre
WriteSelection(mlv, selectedGenre) == [mlv EXCEPT !.selectedGenre = selectedGenre]

\* what a run of the calls leaves: the state object holds the objects as the
\* calls left them
AfterCalls(run) ==
    [MLV |-> [defined |-> TRUE, stats |-> run.c.stats, files |-> run.c.files,
              selectedGenre |-> run.c.selection],
     dom |-> run.dom, log |-> run.log, threw |-> run.threw]

\* the handler as a whole: the page state, the log of its steps and where it threw
applyGenreFilter(mlv, d, selectedGenre, offset) ==
    IF ~mlv.defined
    THEN [MLV |-> mlv, dom |-> d, log |-> <<>>, threw |-> "applyGenreFilter"]
    ELSE
    LET m1 == WriteSelection(mlv, selectedGenre)
        d1 == [d EXCEPT !.genre_select =
                  SetSelectValue(@, IF TruthyGenre(selectedGenre) THEN selectedGenre
                                    ELSE Str_all)]
        c == [stats |-> mlv.stats, files |-> mlv.files, selectedGenre |-> selectedGenre,
              offset |-> offset, selection |-> m1.selectedGenre]
    IN  AfterCalls(RunCalls(RenderOrder, c, d1,
                            <<"window.__MLV.selectedGenre", "genre_select.value">>))

\* GenreOptions with a fault: "unknown" is not left out
GenreOptions_WithUnknown(stats) ==
    LET genres == SortByCountDesc(stats.genre_counts)
    IN  [i \in DOMAIN genres |-> genres[i][1]]

\* the options populateGenreSelect appends: every genre but "unknown", by count
GenreOptions(stats) ==
    LET genres == SortByCountDesc(SelectSeq(stats.genre_counts, IsNotUnknownEntry))
    IN  [i \in DOMAIN genres |-> genres[i][1]]

populateGenreSelect(stats, d) ==
    IF ~HasField(stats, "genre_counts") THEN Thrown(d)
    ELSE Returned([d EXCEPT !.genre_select.options = @ \o GenreOptions(stats)])

-----------------------------------------------------------------------------
(* Actions of the page *)

Outcomes == {"ok", "unparseable", "rejected"}

\* the browser settles fetch('../data/stats.json')
StatsFetchSettles(outcome) ==
    /\ pc = "fetching"
    /\ sres = "pending"
    /\ sres' = outcome
    /\ UNCHANGED <<pc, fres, statsDoc, filesDoc, tz, MLV, dom, listeners, callLog, threw,
                   lastCall, fnVars>>

\* the browser settles fetch('../data/files.json')
FilesFetchSettles(outcome) ==
    /\ pc = "fetching"
    /\ fres = "pending"
    /\ fres' = outcome
    /\ UNCHANGED <<pc, sres, statsDoc, filesDoc, tz, MLV, dom, listeners, callLog, threw,
                   lastCall, fnVars>>

\* await Promise.all([...]): rejects with the first rejection, resolves when
\* both responses are there
PromiseAllSettles ==
    /\ pc = "fetching"
    /\ \/ /\ "rejected" \in {sres, fres}
          /\ pc' = "failed"
       \/ /\ "pending" \notin {sres, fres}
          /\ "rejected" \notin {sres, fres}
          /\ pc' = "json_stats"
    /\ UNCHANGED <<sres, fres, statsDoc, filesDoc, tz, MLV, dom, listeners, callLog, threw,
                   lastCall, fnVars>>

\* const s = await sres.json(); the document is taken as (s.stats || s) gives it
StatsJson ==
    /\ pc = "json_stats"
    /\ \/ /\ sres = "unparseable"
          /\ pc' = "failed"
          /\ UNCHANGED statsDoc
       \/ /\ sres = "ok"
          /\ \E doc \in StatsDocs : statsDoc' = [parsed |-> TRUE, body |-> doc]
          /\ pc' = "json_files"
    /\ UNCHANGED <<sres, fres, filesDoc, tz, MLV, dom, listeners, callLog, threw, lastCall,
                   fnVars>>

\* const f = await fres.json(); loadData returns
FilesJson ==
    /\ pc = "json_files"
    /\ \/ /\ fres = "unparseable"
          /\ pc' = "failed"
          /\ UNCHANGED filesDoc
       \/ /\ fres = "ok"
          /\ \E files \in FileLists : filesDoc' = [parsed |-> TRUE, body |-> files]
          /\ pc' = "loaded"
    /\ UNCHANGED <<sres, fres, statsDoc, tz, MLV, dom, listeners, callLog, threw, lastCall,
                   fnVars>>

\* main() after await loadData(): the state object, the select, the duration
\* strip and the first applyGenreFilter('__all__')
MainBody ==
    /\ pc = "loaded"
    /\ LET mlv == [defined |-> TRUE, stats |-> statsDoc.body, files |-> filesDoc.body,
                   selectedGenre |-> Str_all]
           pop == populateGenreSelect(statsDoc.body, dom)
       IN  IF ~pop.ok
           THEN /\ pc' = "failed"
                /\ MLV' = mlv
                /\ dom' = pop.dom
                /\ threw' = "populateGenreSelect"
                /\ UNCHANGED <<listeners, callLog, lastCall>>
           ELSE \E r \in {applyGenreFilter(mlv, renderDurationBins(statsDoc.body, pop.dom).dom,
                                             Str_all, tz)} :
                    /\ pc' = IF r.threw = "none" THEN "done" ELSE "failed"
                    /\ MLV' = r.MLV
                    /\ dom' = r.dom
                    /\ listeners' = listeners \cup {"change"}
                    /\ callLog' = r.log
                    /\ threw' = r.threw
                    /\ lastCall' = Str_all
    /\ UNCHANGED <<sres, fres, statsDoc, filesDoc, tz, fnVars>>

\* a handler runs applyGenreFilter(selectedGenre) to its end
RunHandler(d, selectedGenre) ==
    \E r \in {applyGenreFilter(MLV, d, selectedGenre, tz)} :
        /\ MLV' = r.MLV
        /\ dom' = r.dom
        /\ callLog' = r.log
        /\ threw' = r.threw
        /\ lastCall' = selectedGenre
        /\ UNCHANGED <<pc, sres, fres, statsDoc, filesDoc, tz, listeners, fnVars>>

\* the user picks another option of the select: the 'change' listener
SelectChange(value) ==
    /\ "change" \in listeners
    /\ \E i \in DOMAIN dom.genre_select.options : dom.genre_select.options[i] = value
    /\ value # dom.genre_select.value
    /\ RunHandler([dom EXCEPT !.genre_select.value = value], value)

\* the user clicks a bar of the genre chart: the 'click' listener of the rect
GenreBarClick(genre) ==
    /\ dom.barchart.kind = "chart"
    /\ \E i \in DOMAIN dom.barchart.rows : dom.barchart.rows[i].genre = genre
    /\ RunHandler([dom EXCEPT !.genre_select = SetSelectValue(@, genre)], genre)

\* the user clicks a slice of the pie: the 'click' listener of the path
GenrePieClick(genre) ==
    /\ dom.genrepie.kind = "chart"
    /\ \E i \in DOMAIN dom.genrepie.rows : dom.genrepie.rows[i].genre = genre
    /\ RunHandler([dom EXCEPT !.genre_select = SetSelectValue(@, genre)], genre)

MaxTimelineClicks == 1

SelectedYearLabel == "Selected added year"

\* the lines the timeline's click listener has put before the summary
RECURSIVE SelectedYearLines(_)
SelectedYearLines(rows) ==
    IF rows # <<>> /\ Head(rows)[1] = SelectedYearLabel
    THEN 1 + SelectedYearLines(Tail(rows)) ELSE 0

\* the user clicks a bar of the timeline: the 'click' listener of the rect
\* writes `Selected added year: ${d.year}\n` + the text of the summary
TimelineBarClick(year) ==
    /\ dom.timeline.kind = "chart"
    /\ \E i \in DOMAIN dom.timeline.rows : dom.timeline.rows[i][1] = year
    /\ SelectedYearLines(dom.summarytext.rows) < MaxTimelineClicks
    /\ dom' = [dom EXCEPT !.summarytext =
                   [kind |-> "text", rows |-> <<<<SelectedYearLabel, <<year>>>>>> \o @.rows]]
    /\ UNCHANGED <<pc, sres, fres, statsDoc, filesDoc, tz, MLV, listeners, callLog, threw,
                   lastCall, fnVars>>

\* the years a timeline can show for the files drawn
TimelineYears == {1969, 1970, 1999, 2000, 2001}

\* every text that is the key of a genre in some statistics document
GenreNames == {Str_all, Str_Rock, Str_Pop, Str_Jazz, Str_Unknown, Str_UNKNOWN, Str_empty}

Init ==
    /\ PageInit
    /\ tz \in TimeZones
    /\ fnFiles = <<>>
    /\ fnCall = [name |-> "none"]

Next ==
    \/ \E outcome \in Outcomes : StatsFetchSettles(outcome)
    \/ \E outcome \in Outcomes : FilesFetchSettles(outcome)
    \/ PromiseAllSettles
    \/ StatsJson
    \/ FilesJson
    \/ MainBody
    \/ \E value \in GenreNames : SelectChange(value)
    \/ \E genre \in GenreNames : GenreBarClick(genre)
    \/ \E genre \in GenreNames : GenrePieClick(genre)
    \/ \E year \in TimelineYears : TimelineBarClick(year)

Spec == Init /\ [][Next]_vars

-----------------------------------------------------------------------------
(* Library functions called on their own: fileHasGenre and getFilteredFiles *)
(* are applied to file lists and selections drawn from the sets below.      *)

MaxFnFiles == 2

FnGenres ==
    { Str_Rock, Str_rock, Str_Unknown,
      Str_Rock \o <<";", " ">> \o Str_Pop,
      <<" ">> \o Str_Pop \o <<" ", ",">> \o Str_Rock,
      Str_UNKNOWN \o <<"/">> \o Str_Rock,
      Str_rock \o <<"|", " ">> \o Str_unknown \o <<" ">>,
      Str_Rock \o <<" ">> \o Str_Pop,
      Str_Unknown \o <<"x">>,
      <<",", ";">>, <<" ">>, Str_empty }

FnFilePool == {[genre |-> g] : g \in FnGenres} \cup {[artist |-> <<"A">>]}

FnFileLists == UNION {[1..n -> FnFilePool] : n \in 0..MaxFnFiles}

FnTargets ==
    { Str_all, Str_empty, Str_Rock, Str_rock, Str_pop, Str_Unknown, Str_Jazz,
      <<" ">> \o Str_rock, Str_rock \o <<",">> \o Str_pop,
      Str_Rock \o <<" ">> \o Str_Pop }

FnInit ==
    /\ PageInit
    /\ tz = 0
    /\ fnFiles \in FnFileLists
    /\ fnCall = [name |-> "none"]

CallFileHasGenre(i, genre) ==
    /\ i \in DOMAIN fnFiles
    /\ fnCall' = [name |-> "fileHasGenre", file |-> fnFiles[i], genre |-> genre,
                  result |-> fileHasGenre(fnFiles[i], genre)]
    /\ UNCHANGED <<fnFiles, pageVars>>

CallGetFilteredFiles(genre) ==
    /\ fnCall' = [name |-> "getFilteredFiles", files |-> fnFiles, genre |-> genre,
                  result |-> getFilteredFiles(fnFiles, genre)]
    /\ UNCHANGED <<fnFiles, pageVars>>

FnNext ==
    \/ \E i \in DOMAIN fnFiles, genre \in FnTargets : CallFileHasGenre(i, genre)
    \/ \E genre \in FnTargets : CallGetFilteredFiles(genre)

FnSpec == FnInit /\ [][FnNext]_vars

-----------------------------------------------------------------------------
(* renderDurationDistribution called on its own, on file lists whose        *)
(* durations lie on and beside the limits of the five ranges.               *)

MaxDurFiles == 2

\* whole seconds on both sides of every limit, a fractional duration, none
DurDurations ==
    {Seconds(n) : n \in {0, 119, 120, 239, 240, 359, 360, 719, 720, 800}}
        \cup {Seconds(119) + 1}

DurFilePool ==
    {[genre |-> Str_Pop, duration |-> h] : h \in DurDurations}
        \cup {[genre |-> Str_Pop], [genre |-> Str_Rock, duration |-> Seconds(300)]}

DurFileLists == UNION {[1..n -> DurFilePool] : n \in 0..MaxDurFiles}

\* with and without the global bins, the per-genre bins, or both
DurStatsDocs ==
    {FullStats, Without(FullStats, "duration_bins"),
     Without(FullStats, "per_genre_duration_bins"),
     Without(Without(FullStats, "duration_bins"), "per_genre_duration_bins"),
     Without(Without(FullStats, "duration_bins"), "duration_percentiles")}

DurGenres == {JsNull, Str_Pop, Str_Rock, Str_Jazz}

DurInit ==
    /\ PageInit
    /\ tz = 0
    /\ fnFiles \in DurFileLists
    /\ fnCall = [name |-> "none"]

CallRenderDurationDistribution(stats, genre) ==
    /\ fnCall' = [name |-> "renderDurationDistribution", stats |-> stats, genre |-> genre,
                  files |-> fnFiles,
                  result |-> renderDurationDistribution(stats, genre, fnFiles, dom).dom.durhist]
    /\ UNCHANGED <<fnFiles, pageVars>>

DurNext == \E stats \in DurStatsDocs, genre \in DurGenres :
               CallRenderDurationDistribution(stats, genre)

DurSpec == DurInit /\ [][DurNext]_vars

-----------------------------------------------------------------------------
(* The year extractor and the four aggregations over the file list called   *)
(* on their own, on records with and without each of the fields they read.  *)

MaxAggFiles == 2

\* a date with two matches, the first inside a longer run of digits
Str_date2019 == <<"1", "2", "0", "1", "9", "/", "1", "9", "9", "9">>

\* an artist whose name is an array index
Str_311 == <<"3", "1", "1">>

AggFilePool ==
    { [genre |-> Str_Rock, artist |-> Str_A, duration |-> Seconds(119),
       date |-> Str_date1998, mtime_epoch |-> 1000000000],
      [genre |-> Str_Rock, artist |-> Str_B, mtime_epoch |-> 946684800],
      [genre |-> Str_Pop, artist |-> Str_A, date |-> Str_dateNone, mtime_epoch |-> 0],
      [genre |-> Str_Pop, artist |-> Str_B, date |-> Str_date2019],
      [genre |-> Str_Pop, artist |-> Str_311, duration |-> Seconds(720)],
      [genre |-> Str_Pop, mtime_epoch |-> 1000000000],
      [genre |-> Str_Rock \o <<";", " ">> \o Str_Pop, artist |-> Str_empty,
       date |-> Str_empty, mtime_epoch |-> 946684800],
      [artist |-> Str_B, duration |-> Seconds(100)] }

\* the name of the i-th of many artists, i < 100
ArtistName(i) == <<"n", Digits[(i \div 10) + 1], Digits[(i % 10) + 1]>>

\* one artist more than the chart keeps, the last of them with two files
ManyArtists ==
    [i \in 1..(TopArtists + 2) |->
        [genre |-> Str_Pop,
         artist |-> ArtistName(IF i > TopArtists + 1 THEN TopArtists + 1 ELSE i)]]

AggFileLists == UNION {[1..n -> AggFilePool] : n \in 0..MaxAggFiles} \cup {ManyArtists}

AggStatsDocs ==
    {FullStats, Without(FullStats, "top_artists_per_genre"),
     Without(FullStats, "duration_bins")}

AggGenres == {JsNull, Str_Pop, Str_Rock, Str_Jazz}

AggSelections == {Str_all, Str_Pop, Str_Rock, Str_Jazz}

AggInit ==
    /\ PageInit
    /\ tz \in TimeZones
    /\ fnFiles \in AggFileLists
    /\ fnCall = [name |-> "none"]

CallGetYearFromFile(i) ==
    /\ fnCall.name = "none"
    /\ i \in DOMAIN fnFiles
    /\ fnCall' = [name |-> "getYearFromFile", file |-> fnFiles[i],
                  result |-> getYearFromFile(fnFiles[i], tz)]
    /\ UNCHANGED <<fnFiles, pageVars>>

CallRenderArtistBar(stats, genre) ==
    /\ fnCall.name = "none"
    /\ \E r \in {renderArtistBar(genre, stats, fnFiles, dom)} :
           fnCall' = [name |-> "renderArtistBar", stats |-> stats, genre |-> genre,
                      files |-> fnFiles, ok |-> r.ok, result |-> r.dom.artistchart]
    /\ UNCHANGED <<fnFiles, pageVars>>

CallRenderYearHistogramFromFiles(selectedGenre) ==
    /\ fnCall.name = "none"
    /\ \E r \in {renderYearHistogramFromFiles(fnFiles, selectedGenre, tz, dom)} :
           fnCall' = [name |-> "renderYearHistogramFromFiles", genre |-> selectedGenre,
                      files |-> fnFiles, ok |-> r.ok, result |-> r.dom.yearhist]
    /\ UNCHANGED <<fnFiles, pageVars>>

CallRenderAddedTimelineFromFiles(selectedGenre) ==
    /\ fnCall.name = "none"
    /\ \E r \in {renderAddedTimelineFromFiles(fnFiles, selectedGenre, tz, dom)} :
           fnCall' = [name |-> "renderAddedTimelineFromFiles", genre |-> selectedGenre,
                      files |-> fnFiles, ok |-> r.ok, result |-> r.dom.timeline]
    /\ UNCHANGED <<fnFiles, pageVars>>

\* renderDurationDistribution, with whether it returned
CallDurationOfFiles(stats, genre) ==
    /\ fnCall.name = "none"
    /\ \E r \in {renderDurationDistribution(stats, genre, fnFiles, dom)} :
           fnCall' = [name |-> "renderDurationDistribution", stats |-> stats,
                      genre |-> genre, files |-> fnFiles, ok |-> r.ok,
                      result |-> r.dom.durhist]
    /\ UNCHANGED <<fnFiles, pageVars>>

AggNext ==
    \/ \E i \in DOMAIN fnFiles : CallGetYearFromFile(i)
    \/ \E stats \in AggStatsDocs, genre \in AggGenres : CallRenderArtistBar(stats, genre)
    \/ \E genre \in AggSelections : CallRenderYearHistogramFromFiles(genre)
    \/ \E genre \in AggSelections : CallRenderAddedTimelineFromFiles(genre)
    \/ \E stats \in AggStatsDocs, genre \in AggGenres : CallDurationOfFiles(stats, genre)

\* each run is one call on one input
AggSpec == AggInit /\ [][AggNext]_vars

-----------------------------------------------------------------------------
(* What the claims compare the code with: the parts of a genre text, stated *)
(* by position rather than computed by split, trim and filter.              *)

\* the maximal delimiter-free stretches of s, as index pairs
Stretches(s) ==
    { p \in (1..Len(s)) \X (1..Len(s)) :
        /\ p[1] <= p[2]
        /\ \A k \in p[1]..p[2] : s[k] \notin GenreDelims
        /\ p[1] = 1 \/ s[p[1] - 1] \in GenreDelims
        /\ p[2] = Len(s) \/ s[p[2] + 1] \in GenreDelims }

\* s between its first and its last character that is not white space
Trimmed(s) ==
    LET ink == {k \in DOMAIN s : s[k] \notin WhiteSpace}
    IN  IF ink = {} THEN <<>>
        ELSE SubSeq(s, CHOOSE a \in ink : \A b \in ink : a <= b,
                       CHOOSE a \in ink : \A b \in ink : a >= b)

PartSet(s) == {Trimmed(SubSeq(s, p[1], p[2])) : p \in Stretches(s)} \ {<<>>}

SameIgnoringCase(a, b) ==
    /\ Len(a) = Len(b)
    /\ \A k \in DOMAIN a : ToLowerChar(a[k]) = ToLowerChar(b[k])

HasUnknownPart(f) ==
    HasField(f, "genre") /\ \E part \in PartSet(f.genre) : SameIgnoringCase(part, Str_unknown)

MatchesGenre(f, g) ==
    HasField(f, "genre") /\ \E part \in PartSet(f.genre) : SameIgnoringCase(part, g)

\* the indices of files whose element satisfies keep, and the sequence they select
RECURSIVE Pick(_, _, _)
Pick(files, keep, i) ==
    IF i > Len(files) THEN <<>>
    ELSE IF i \in keep THEN <<files[i]>> \o Pick(files, keep, i + 1)
         ELSE Pick(files, keep, i + 1)

\* C1: with the selection '__all__', getFilteredFiles returns exactly the files
\* whose genre is present and not the empty text and none of whose parts equals
\* "unknown" in any letter case, in their order.
C1_DefaultFilter ==
    (fnCall.name = "getFilteredFiles" /\ fnCall.genre = Str_all) =>
        fnCall.result =
            Pick(fnCall.files,
                 {i \in DOMAIN fnCall.files :
                     /\ HasField(fnCall.files[i], "genre")
                     /\ fnCall.files[i].genre # <<>>
                     /\ ~HasUnknownPart(fnCall.files[i])}, 1)

\* C1 witness: a call with '__all__' that keeps a file and drops one with an
\* "unknown" part in capitals, one with the empty genre and one with no genre
C1_Witness ==
    /\ fnCall.name = "getFilteredFiles"
    /\ fnCall.genre = Str_all
    /\ Len(fnCall.files) = 2
    /\ Len(fnCall.result) = 1
    /\ \E i \in DOMAIN fnCall.files :
          fnCall.files[i] = [genre |-> Str_UNKNOWN \o <<"/">> \o Str_Rock]

\* a specific selection: a non-empty text other than the sentinel
IsSpecific(g) == g # <<>> /\ g # Str_all

\* C2: with a specific selection g, getFilteredFiles returns exactly the files
\* the Genre Matcher accepts for g, "unknown" files included.
C2_SpecificFilter ==
    (fnCall.name = "getFilteredFiles" /\ IsSpecific(fnCall.genre)) =>
        fnCall.result =
            Pick(fnCall.files,
                 {i \in DOMAIN fnCall.files : MatchesGenre(fnCall.files[i], fnCall.genre)}, 1)

\* C2 witness: "Unknown" selected explicitly returns a file that '__all__' drops
C2_Witness ==
    /\ fnCall.name = "getFilteredFiles"
    /\ fnCall.genre = Str_Unknown
    /\ fnCall.result # <<>>
    /\ getFilteredFiles(fnCall.result, Str_all) = <<>>

\* C3: fileHasGenre is true exactly when the file has a genre field one of whose
\* parts equals the whole target, letter case ignored.
C3_GenreMatcher ==
    fnCall.name = "fileHasGenre" =>
        fnCall.result = MatchesGenre(fnCall.file, fnCall.genre)

\* C3 witness: a two-part genre matched by its second part in another letter case
C3_Witness ==
    /\ fnCall.name = "fileHasGenre"
    /\ fnCall.file = [genre |-> Str_Rock \o <<";", " ">> \o Str_Pop]
    /\ fnCall.genre = Str_pop
    /\ fnCall.result = TRUE

\* g is a part of no file's genre
InNoFile(files, g) == \A i \in DOMAIN files : ~MatchesGenre(files[i], g)

\* C4 as stated: every selection other than the sentinel that is in no file, the
\* empty text included, gives the empty sequence.
C4_AbsentGenreEmpty_AsStated ==
    (/\ fnCall.name = "getFilteredFiles"
     /\ fnCall.genre # Str_all
     /\ InNoFile(fnCall.files, fnCall.genre)) =>
        fnCall.result = <<>>

\* C4 amended: every specific selection (non-empty, not the sentinel) that is in
\* no file gives the empty sequence; the empty text gives what '__all__' gives.
C4_AbsentGenreEmpty ==
    fnCall.name = "getFilteredFiles" =>
        /\ (IsSpecific(fnCall.genre) /\ InNoFile(fnCall.files, fnCall.genre)) =>
               fnCall.result = <<>>
        /\ fnCall.genre = <<>> =>
               fnCall.result =
                   Pick(fnCall.files,
                        {i \in DOMAIN fnCall.files :
                            /\ HasField(fnCall.files[i], "genre")
                            /\ fnCall.files[i].genre # <<>>
                            /\ ~HasUnknownPart(fnCall.files[i])}, 1)

\* C4 witness: a genre no file has, asked of a list that is not empty
C4_Witness ==
    /\ fnCall.name = "getFilteredFiles"
    /\ fnCall.genre = Str_Jazz
    /\ Len(fnCall.files) = 2
    /\ fnCall.result = <<>>

-----------------------------------------------------------------------------
(* The duration view *)

FiveLabels == {"<2m", "2-4m", "4-6m", "6-12m", "12m+"}

\* the ranges of the five labels, in whole seconds
InLabelRange(label, sec) ==
    CASE label = "<2m" -> sec \in 0..119
      [] label = "2-4m" -> sec \in 120..239
      [] label = "4-6m" -> sec \in 240..359
      [] label = "6-12m" -> sec \in 360..719
      [] label = "12m+" -> sec >= 720

\* a duration of whole seconds, absent read as 0
IsWholeSeconds(f) == HasField(f, "duration") => f.duration % 2 = 0
WholeSeconds(f) == IF HasField(f, "duration") THEN f.duration \div 2 ELSE 0

\* the count a sequence of <<label, count>> rows gives a label, 0 with no row
RowCount(rows, label) ==
    IF \E i \in DOMAIN rows : rows[i][1] = label
    THEN rows[CHOOSE i \in DOMAIN rows : rows[i][1] = label][2] ELSE 0

RECURSIVE SumCounts(_)
SumCounts(rows) == IF rows = <<>> THEN 0 ELSE Head(rows)[2] + SumCounts(Tail(rows))

\* the bins the view shows: none when it shows percentiles instead
ShownBins(el) == IF el.kind = "chart" THEN el.rows ELSE <<>>

HasPerGenreBins(stats, genre) ==
    /\ HasField(stats, "per_genre_duration_bins")
    /\ \E i \in DOMAIN stats.per_genre_duration_bins :
          stats.per_genre_duration_bins[i][1] = genre

\* C5 as stated: with a genre selected, the view shows the bins counted from the
\* files of that genre whenever the statistics hold no per-genre bins for it,
\* whatever the global bins are, and does not count when they hold them.
C5_FallbackWhenNoPerGenreBins ==
    (fnCall.name = "renderDurationDistribution" /\ TruthyGenre(fnCall.genre)) =>
        LET kept == getFilteredFiles(fnCall.files, fnCall.genre)
        IN  IF HasPerGenreBins(fnCall.stats, fnCall.genre)
            THEN fnCall.result.from # "fallback"
            ELSE \A label \in FiveLabels :
                    RowCount(ShownBins(fnCall.result), label) =
                        Cardinality({i \in DOMAIN kept : DurationLabel(kept[i]) = label})

\* C6: when the fallback counts, every file of the genre is counted once, under
\* one of the five labels; a file of whole seconds is counted under the label
\* whose range holds its duration; no label is shown with a count of zero.
C6_DurationBuckets ==
    (fnCall.name = "renderDurationDistribution" /\ fnCall.result.from = "fallback") =>
        LET kept == getFilteredFiles(fnCall.files, fnCall.genre)
            rows == ShownBins(fnCall.result)
        IN  /\ \A i \in DOMAIN rows : rows[i][1] \in FiveLabels /\ rows[i][2] > 0
            /\ \A i, j \in DOMAIN rows : rows[i][1] = rows[j][1] => i = j
            /\ SumCounts(rows) = Len(kept)
            /\ (\A i \in DOMAIN kept : IsWholeSeconds(kept[i])) =>
                   \A label \in FiveLabels :
                       RowCount(rows, label) =
                           Cardinality({i \in DOMAIN kept :
                                           InLabelRange(label, WholeSeconds(kept[i]))})

\* C6 witness: the fallback counted a file of 120 s under 2-4m and one of 720 s
\* under 12m+
C6_Witness ==
    /\ fnCall.name = "renderDurationDistribution"
    /\ fnCall.result.from = "fallback"
    /\ fnCall.files = << [genre |-> Str_Pop, duration |-> Seconds(120)],
                         [genre |-> Str_Pop, duration |-> Seconds(720)] >>
    /\ RowCount(fnCall.result.rows, "2-4m") = 1
    /\ RowCount(fnCall.result.rows, "12m+") = 1
    /\ Len(fnCall.result.rows) = 2

-----------------------------------------------------------------------------
(* The Filter Controller *)

GenreViewCalls == {"renderGenreBar", "renderGenrePie", "renderGenreRadar"}
LaterViewCalls == {"renderArtistBar", "renderDurationDistribution",
                   "renderYearHistogramFromFiles", "renderAddedTimelineFromFiles"}

IsPrefix(a, b) == Len(a) <= Len(b) /\ SubSeq(b, 1, Len(a)) = a

\* C7 as stated: no genre-distribution view (bar, pie, radar) is drawn after the
\* artist, duration, year or timeline view.
C7_GenreViewsBeforeOthers ==
    \A i, j \in DOMAIN callLog :
        (callLog[i] \in GenreViewCalls /\ callLog[j] \in LaterViewCalls) => i < j

\* C7 amended: applyGenreFilter writes the selection first and then calls the
\* views in the order summary, duration strip, genre bar, genre pie, artist,
\* duration, year histogram, timeline, genre radar; a call that throws ends the
\* sequence, and a handler that did not throw made every call.
C7_CallOrder ==
    LET order == <<"window.__MLV.selectedGenre", "genre_select.value", "renderSummary",
                   "renderDurationBins", "renderGenreBar", "renderGenrePie",
                   "renderArtistBar", "renderDurationDistribution",
                   "renderYearHistogramFromFiles", "renderAddedTimelineFromFiles",
                   "renderGenreRadar">>
    IN  callLog # <<>> =>
            /\ IsPrefix(callLog, order)
            /\ callLog[1] = "window.__MLV.selectedGenre"
            /\ MLV.selectedGenre = lastCall
            /\ threw = "none" => callLog = order
            /\ threw # "none" => callLog[Len(callLog)] = threw

\* C7 witness: a genre was selected and the handler made all its calls
C7_Witness ==
    /\ callLog # <<>>
    /\ threw = "none"
    /\ lastCall = Str_Pop
    /\ callLog[Len(callLog)] = "renderGenreRadar"

Unfiltered == MLV.selectedGenre = Str_all
FilteredBy(g) == g # Str_all /\ MLV.selectedGenre = g

\* C8: once the state object exists the selection is Unfiltered when the last
\* applyGenreFilter call had the sentinel (main's own call included) and
\* FilteredBy(g) when it had the genre g; exactly one value is selected.
C8_SelectionMachine ==
    MLV.defined =>
        /\ lastCall = Str_all => Unfiltered
        /\ lastCall # Str_all => FilteredBy(lastCall)
        /\ Cardinality({g \in GenreNames : MLV.selectedGenre = g}) = 1

\* C8 witness: a genre is selected after startup
C8_Witness ==
    /\ MLV.defined
    /\ pc = "done"
    /\ MLV.selectedGenre = Str_Rock
    /\ dom.genre_select.value = Str_Rock

\* startup met a failed fetch, a body that is not JSON, or statistics with no
\* summary
StartupInputBad ==
    \/ sres \in {"rejected", "unparseable"}
    \/ fres \in {"rejected", "unparseable"}
    \/ statsDoc.parsed /\ ~HasField(statsDoc.body, "summary")

\* C9 as stated: nothing is drawn before both responses are there, and when a
\* fetch fails or a document is malformed nothing is drawn at all: no option
\* is added and no element is written.
C9_NoPartialDashboard ==
    /\ dom # InitialDom => (sres = "ok" /\ fres = "ok")
    /\ StartupInputBad => dom = InitialDom

\* C10 as stated: with any key of the statistics absent, applyGenreFilter still
\* runs to its end and draws every view.
C10_AbsentKeyTolerated ==
    (MLV.defined /\ callLog # <<>>) =>
        /\ threw = "none"
        /\ \A id \in ElementIds : dom[id].kind # "initial"

-----------------------------------------------------------------------------
(* C11: the year of a file *)

\* the days from 1 January 1970 to 1 January of year y, by the leap-year rule
DaysBeforeYear(y) ==
    365 * (y - 1970) + (y - 1969) \div 4 - (y - 1901) \div 100 + (y - 1601) \div 400

\* whether the instant `epoch` lies in calendar year y on a clock `offset`
\* seconds ahead of UTC
LocalYearIs(y, epoch, offset) ==
    LET day == (epoch + offset) \div 86400
    IN  DaysBeforeYear(y) <= day /\ day < DaysBeforeYear(y + 1)

\* the positions of the leftmost stretch of four digits starting 19 or 20
FirstYearPositions(date) ==
    {i \in DOMAIN date : YearAt(date, i) /\ \A j \in 1..(i - 1) : ~YearAt(date, j)}

FourDigits(date, i) ==
    1000 * DigitValue(date[i]) + 100 * DigitValue(date[i + 1])
        + 10 * DigitValue(date[i + 2]) + DigitValue(date[i + 3])

\* what C11 says getYearFromFile returns for file f, as a set of optional years
YearAsStated(f, offset) ==
    IF HasField(f, "date") /\ FirstYearPositions(f.date) # {}
    THEN {<<FourDigits(f.date, i)>> : i \in FirstYearPositions(f.date)}
    ELSE IF HasField(f, "mtime_epoch")
         THEN {<<y>> : y \in {y \in 1960..2040 : LocalYearIs(y, f.mtime_epoch, offset)}}
         ELSE {<<>>}

\* C11: getYearFromFile returns the first four digits starting 19 or 20 of the
\* date when there are such; otherwise the calendar year of mtime_epoch for
\* every present mtime_epoch, 0 included; null only when neither gives a year.
C11_YearExtractor ==
    fnCall.name = "getYearFromFile" =>
        fnCall.result \in YearAsStated(fnCall.file, tz)

-----------------------------------------------------------------------------
(* C12: the artists counted from the files *)

\* the positions in `files` of the records whose artist is the non-empty text a
ArtistPositions(files, a) ==
    {i \in DOMAIN files : HasField(files[i], "artist") /\ files[i].artist = a}

NamedArtists(files) ==
    {files[i].artist : i \in {j \in DOMAIN files : /\ HasField(files[j], "artist")
                                                    /\ files[j].artist # <<>>}}

Min(S) == CHOOSE a \in S : \A b \in S : a <= b

\* the order in which a counting object hands out its keys: array indices by
\* number, then the other names by first appearance
KeyBefore(files, a, b) ==
    IF IsArrayIndex(a) /\ IsArrayIndex(b) THEN a # b /\ DigitsAtMost(a, b)
    ELSE IF IsArrayIndex(a) \/ IsArrayIndex(b) THEN IsArrayIndex(a)
    ELSE Min(ArtistPositions(files, a)) < Min(ArtistPositions(files, b))

ChartRows(el) == IF el.kind = "chart" THEN el.rows ELSE <<>>

\* C12: with a genre selected and no list of top artists for it, the artist
\* view shows the artists of the filtered files, each once with the number of
\* its files, largest count first, equal counts in the order of the counting
\* object, at most twenty; what is left out never has a larger count than
\* what is shown; files without artist are counted nowhere; with no artist
\* at all the view shows its no-data text.
C12_ArtistFallback ==
    (fnCall.name = "renderArtistBar" /\ fnCall.result.from = "fallback") =>
        LET kept == getFilteredFiles(fnCall.files, fnCall.genre)
            artists == NamedArtists(kept)
            rows == ChartRows(fnCall.result)
            shown == {rows[i].artist : i \in DOMAIN rows}
        IN  /\ fnCall.ok
            /\ (fnCall.result.kind = "text") = (artists = {})
            /\ fnCall.result.kind = "text" => fnCall.result.rows = <<NoDataText>>
            /\ \A i \in DOMAIN rows :
                   /\ rows[i].artist \in artists
                   /\ rows[i].count = Cardinality(ArtistPositions(kept, rows[i].artist))
            /\ \A i, j \in DOMAIN rows :
                   i < j => /\ rows[i].artist # rows[j].artist
                            /\ rows[i].count >= rows[j].count
                            /\ rows[i].count = rows[j].count
                                   => KeyBefore(kept, rows[i].artist, rows[j].artist)
            /\ Len(rows) = IF Cardinality(artists) < 20 THEN Cardinality(artists) ELSE 20
            /\ \A a \in artists \ shown : \A i \in DOMAIN rows :
                   /\ rows[i].count >= Cardinality(ArtistPositions(kept, a))
                   /\ rows[i].count = Cardinality(ArtistPositions(kept, a))
                          => KeyBefore(kept, rows[i].artist, a)

\* more than twenty artists: the one with two files leads, one artist is left out
C12_Witness ==
    /\ fnCall.name = "renderArtistBar"
    /\ fnCall.result.from = "fallback"
    /\ fnCall.result.kind = "chart"
    /\ Len(fnCall.result.rows) = 20
    /\ fnCall.result.rows[1].count = 2
    /\ fnCall.result.rows[2].count = 1
    /\ Cardinality(NamedArtists(getFilteredFiles(fnCall.files, fnCall.genre))) > 20

\* an artist named by an array index comes before an earlier artist with as many files
C12_WitnessIndexKey ==
    /\ fnCall.name = "renderArtistBar"
    /\ fnCall.result.from = "fallback"
    /\ fnCall.result.kind = "chart"
    /\ Len(fnCall.result.rows) = 2
    /\ fnCall.result.rows[1].artist = Str_311
    /\ fnCall.files[1].artist = Str_A

-----------------------------------------------------------------------------
(* C13: the year histogram *)

\* the positions of the filtered files whose year, as getYearFromFile gives
\* it, is y; y is an optional value
YearPositions(kept, offset, y) ==
    {i \in DOMAIN kept : getYearFromFile(kept[i], offset) = y}

\* C13: the year histogram has one row for each year that getYearFromFile
\* gives for some filtered file, with the number of those files, years
\* rising; a file without year is in no row, so the counts add up to the
\* number of filtered files that have a year.
C13_YearHistogram ==
    fnCall.name = "renderYearHistogramFromFiles" =>
        LET kept == getFilteredFiles(fnCall.files, fnCall.genre)
            rows == ChartRows(fnCall.result)
        IN  /\ fnCall.ok
            /\ \A i \in DOMAIN rows :
                   /\ rows[i][2] > 0
                   /\ rows[i][2] = Cardinality(YearPositions(kept, tz, <<rows[i][1]>>))
            /\ \A i, j \in DOMAIN rows : i < j => rows[i][1] < rows[j][1]
            /\ \A k \in DOMAIN kept :
                   getYearFromFile(kept[k], tz) # <<>> =>
                       \E i \in DOMAIN rows : <<rows[i][1]>> = getYearFromFile(kept[k], tz)
            /\ SumCounts(rows) = Len(kept) - Cardinality(YearPositions(kept, tz, <<>>))

\* two filtered files, one of them without year
C13_Witness ==
    /\ fnCall.name = "renderYearHistogramFromFiles"
    /\ fnCall.result.kind = "chart"
    /\ Len(getFilteredFiles(fnCall.files, fnCall.genre)) = 2
    /\ YearPositions(getFilteredFiles(fnCall.files, fnCall.genre), tz, <<>>) # {}

\* two years, the later one met first in the list
C13_WitnessOrder ==
    /\ fnCall.name = "renderYearHistogramFromFiles"
    /\ fnCall.result.kind = "chart"
    /\ Len(fnCall.result.rows) = 2
    /\ getYearFromFile(fnCall.files[1], tz) = <<fnCall.result.rows[2][1]>>

-----------------------------------------------------------------------------
(* C14: the timeline of added files *)

\* the positions of the filtered files that belong to year y of the timeline:
\* those whose mtime_epoch lies in y on the local clock, and, when y is
\* yearOfAbsent, those without mtime_epoch
TimelinePositions(kept, offset, y, yearOfAbsent) ==
    {i \in DOMAIN kept :
        IF HasField(kept[i], "mtime_epoch")
        THEN LocalYearIs(y, kept[i].mtime_epoch, offset)
        ELSE y = yearOfAbsent}

\* the timeline has one row for each year some filtered file belongs to, with
\* the number of those files, years rising, and the counts add up to the
\* number of filtered files
TimelineCounts(yearOfAbsent) ==
    LET kept == getFilteredFiles(fnCall.files, fnCall.genre)
        rows == ChartRows(fnCall.result)
    IN  /\ fnCall.ok
        /\ \A i \in DOMAIN rows :
               /\ rows[i][2] > 0
               /\ rows[i][2] = Cardinality(TimelinePositions(kept, tz, rows[i][1],
                                                              yearOfAbsent))
        /\ \A i, j \in DOMAIN rows : i < j => rows[i][1] < rows[j][1]
        /\ SumCounts(rows) = Len(kept)

\* C14 as it is worded: the timeline counts the filtered files by the calendar
\* year of mtime_epoch, years rising; a file without mtime_epoch is counted
\* under the epoch year, 1970, so that the counts add up to the number of
\* filtered files.
C14_Timeline_AsStated ==
    fnCall.name = "renderAddedTimelineFromFiles" => TimelineCounts(1970)

\* C14, amended: the timeline counts the filtered files by the calendar year of
\* mtime_epoch on the local clock, years rising; a file without mtime_epoch
\* is counted under the local year of the epoch instant, which is 1969 on a
\* clock behind UTC and 1970 otherwise, so that the counts add up to the
\* number of filtered files.
C14_Timeline ==
    fnCall.name = "renderAddedTimelineFromFiles" =>
        TimelineCounts(IF tz < 0 THEN 1969 ELSE 1970)

\* a filtered file without mtime_epoch, on a clock behind UTC
C14_Witness ==
    /\ fnCall.name = "renderAddedTimelineFromFiles"
    /\ fnCall.result.kind = "chart"
    /\ tz < 0
    /\ \E i \in DOMAIN fnCall.files :
           /\ ~HasField(fnCall.files[i], "mtime_epoch")
           /\ fnCall.genre # Str_all
           /\ fileHasGenre(fnCall.files[i], fnCall.genre)

-----------------------------------------------------------------------------
(* C15: getFilteredFiles keeps order and writes nothing *)

\* whether r is made of elements of s taken at rising positions
IsSubsequence(r, s) ==
    \E at \in [DOMAIN r -> DOMAIN s] :
        /\ \A i, j \in DOMAIN r : i < j => at[i] < at[j]
        /\ \A i \in DOMAIN r : r[i] = s[at[i]]

\* C15: what getFilteredFiles returns is a subsequence of the list it was
\* given: input files at rising positions, none twice; the list is afterwards
\* what it was before the call, and a second call with the same list and
\* genre returns the same sequence.
C15_OrderPreservingPure ==
    fnCall.name = "getFilteredFiles" =>
        /\ IsSubsequence(fnCall.result, fnCall.files)
        /\ fnFiles = fnCall.files
        /\ getFilteredFiles(fnFiles, fnCall.genre) = fnCall.result

\* two different files kept
C15_Witness ==
    /\ fnCall.name = "getFilteredFiles"
    /\ Len(fnCall.result) = 2
    /\ fnCall.result[1] # fnCall.result[2]

-----------------------------------------------------------------------------
(* C16: selecting a genre twice *)

\* the page that applyGenreFilter(g) leaves when it is run on the page as
\* main has prepared it, for the given documents and clock
ViewsOf(stats, files, g, offset) ==
    applyGenreFilter([defined |-> TRUE, stats |-> stats, files |-> files,
                      selectedGenre |-> Str_all],
                     renderDurationBins(stats, populateGenreSelect(stats, InitialDom).dom).dom,
                     g, offset).dom

\* applyGenreFilter has run and no timeline bar was clicked since
AfterApply == callLog # <<>> /\ SelectedYearLines(dom.summarytext.rows) = 0

\* running applyGenreFilter(g) again right after applyGenreFilter(g) changes nothing
AgainChangesNothing ==
    AfterApply =>
        \E r \in {applyGenreFilter(MLV, dom, lastCall, tz)} :
            /\ r.MLV = MLV
            /\ r.dom = dom
            /\ r.threw = threw

\* applyGenreFilter(g) wipes what a click on the timeline wrote
ApplyAfterClick ==
    (callLog # <<>> /\ SelectedYearLines(dom.summarytext.rows) > 0) =>
        \A g \in GenreNames : applyGenreFilter(MLV, dom, g, tz).dom = ViewsOf(MLV.stats, MLV.files, g, tz)

\* C16: applyGenreFilter(g) run twice in a row leaves the selection and every
\* view as one run leaves them, also after a click on the timeline has
\* changed the summary, and after a run the views are a function of the
\* statistics, the files and g alone, whatever was selected before.
C16_Idempotent ==
    /\ AgainChangesNothing
    /\ ApplyAfterClick
    /\ AfterApply => /\ MLV.selectedGenre = lastCall
                     /\ dom = ViewsOf(MLV.stats, MLV.files, lastCall, tz)

-----------------------------------------------------------------------------
(* C17: a selection that matches no file *)

\* applyGenreFilter last ran for a genre that no loaded file has
ZeroMatchSelected ==
    /\ callLog # <<>>
    /\ lastCall # Str_all
    /\ getFilteredFiles(MLV.files, lastCall) = <<>>

\* C17: when the selected genre matches no file, applyGenreFilter runs to its
\* end and each view that depends on the files shows that there is nothing:
\* the artist view its no-data text, the year histogram and the timeline
\* nothing, and the duration view no bins of another genre or of the whole
\* library.
C17_ZeroMatchViews ==
    ZeroMatchSelected =>
        /\ threw = "none"
        /\ dom.artistchart.kind = "text" /\ dom.artistchart.rows = <<NoDataText>>
        /\ dom.yearhist = Cleared
        /\ dom.timeline = Cleared
        /\ dom.durhist.from = "global" => ShownBins(dom.durhist) = <<>>

-----------------------------------------------------------------------------
(* C18: records with fields missing *)

\* the positions of the files that lack every one of the given fields
Lacking(files, fields) ==
    {i \in DOMAIN files : \A k \in fields : ~HasField(files[i], k)}

\* C18: a filtered file that lacks a field is left out of the aggregation that
\* reads that field and of no other. The duration bins counted from the
\* files count every filtered file, those without duration under "<2m"; the
\* year histogram counts every filtered file with a year and the timeline
\* every filtered file, with or without artist and duration; the artists
\* counted from the files count every filtered file with an artist, with or
\* without date, mtime_epoch and duration; and no aggregation throws.
C18_MissingFields ==
    LET kept == getFilteredFiles(fnCall.files, fnCall.genre)
        rows == ChartRows(fnCall.result)
    IN  /\ (fnCall.name = "renderDurationDistribution" /\ fnCall.result.from = "fallback") =>
               /\ fnCall.ok
               /\ SumCounts(rows) = Len(kept)
               /\ RowCount(rows, "<2m") >= Cardinality(Lacking(kept, {"duration"}))
        /\ fnCall.name = "renderYearHistogramFromFiles" =>
               /\ fnCall.ok
               /\ SumCounts(rows) = Cardinality({i \in DOMAIN kept :
                                         \/ HasField(kept[i], "date")
                                            /\ FirstYearPositions(kept[i].date) # {}
                                         \/ HasField(kept[i], "mtime_epoch")
                                            /\ kept[i].mtime_epoch # 0})
        /\ fnCall.name = "renderAddedTimelineFromFiles" =>
               /\ fnCall.ok
               /\ SumCounts(rows) = Len(kept)
        /\ (fnCall.name = "renderArtistBar" /\ fnCall.result.from = "fallback"
               /\ Cardinality(NamedArtists(kept)) <= 20) =>
               /\ fnCall.ok
               /\ SumCounts([i \in DOMAIN rows |-> <<rows[i].artist, rows[i].count>>])
                      = Len(kept) - Cardinality(Lacking(kept, {"artist"}))
                            - Cardinality(ArtistPositions(kept, <<>>))

\* the duration bins counted from two filtered files, one of which has
\* neither artist nor duration nor date
C18_Witness ==
    /\ fnCall.name = "renderDurationDistribution"
    /\ fnCall.result.from = "fallback"
    /\ fnCall.result.kind = "chart"
    /\ Len(getFilteredFiles(fnCall.files, fnCall.genre)) = 2
    /\ Lacking(getFilteredFiles(fnCall.files, fnCall.genre),
               {"artist", "duration", "date"}) # {}

\* the artists counted from two filtered files, one of which has neither
\* date nor mtime_epoch
C18_WitnessArtist ==
    /\ fnCall.name = "renderArtistBar"
    /\ fnCall.result.from = "fallback"
    /\ fnCall.result.kind = "chart"
    /\ \E i \in Lacking(getFilteredFiles(fnCall.files, fnCall.genre), {"date", "mtime_epoch"}) :
           /\ HasField(getFilteredFiles(fnCall.files, fnCall.genre)[i], "artist")
           /\ \E j \in DOMAIN fnCall.result.rows :
                  fnCall.result.rows[j].artist =
                      getFilteredFiles(fnCall.files, fnCall.genre)[i].artist

-----------------------------------------------------------------------------
(* C19: who writes the page state *)

\* the state object holds the documents as they were loaded, and the genre
\* of the last applyGenreFilter call
StateAsLoaded ==
    MLV.defined =>
        /\ MLV.stats = statsDoc.body
        /\ MLV.files = filesDoc.body
        /\ MLV.selectedGenre = lastCall

\* a step that changes the state object, once it exists, is a run of
\* applyGenreFilter and changes the selection only
OnlyControllerWrites ==
    (MLV.defined /\ MLV' # MLV) =>
        /\ callLog' # <<>>
        /\ callLog'[1] = "window.__MLV.selectedGenre"
        /\ MLV' = [MLV EXCEPT !.selectedGenre = lastCall']

\* C19: through every sequence of selection changes the selection is written
\* by applyGenreFilter only, after main has set it to '__all__'; no view
\* writes it, and none changes the loaded files or statistics, which stay
\* what they were when loaded.
C19_OnlyControllerWrites == []StateAsLoaded /\ [][OnlyControllerWrites]_vars

\* a genre was selected, every view was drawn, and a timeline bar was clicked
C19_Witness ==
    /\ MLV.defined
    /\ MLV.selectedGenre = Str_Pop
    /\ threw = "none"
    /\ SelectedYearLines(dom.summarytext.rows) > 0

-----------------------------------------------------------------------------
(* C20: no handler before the state object *)

\* some listener that calls applyGenreFilter is registered: the select's, a
\* genre bar's or a pie slice's
HandlerRegistered ==
    \/ listeners # {}
    \/ dom.barchart.kind = "chart" /\ dom.barchart.rows # <<>>
    \/ dom.genrepie.kind = "chart" /\ dom.genrepie.rows # <<>>

\* C20: a listener that calls applyGenreFilter is registered only when both
\* documents are loaded and window.__MLV is assigned, so applyGenreFilter
\* never runs without the state object, whatever the user does while the
\* fetches are pending.
C20_HandlersAfterInit ==
    /\ HandlerRegistered =>
           /\ MLV.defined
           /\ sres = "ok" /\ fres = "ok"
           /\ statsDoc.parsed /\ filesDoc.parsed
    /\ callLog # <<>> => MLV.defined
    /\ threw # "applyGenreFilter"

\* the user selected a genre after startup and the handler ran to its end
C20_Witness ==
    /\ "change" \in listeners
    /\ dom.barchart.kind = "chart"
    /\ lastCall = Str_Jazz
    /\ callLog # <<>>
    /\ threw = "none"

-----------------------------------------------------------------------------
(* C21: what can be selected *)

\* the seven letters of "unknown", in either case
IsUnknownWord(g) ==
    /\ Len(g) = 7
    /\ \A i \in 1..7 :
           g[i] \in {Str_unknown[i], Str_UNKNOWN[i]}

\* C21: once the state object exists, the selection is the sentinel '__all__'
\* or a key of stats.genre_counts that is not "unknown" in any letter case,
\* whatever the user picks in the select, on the genre bars and on the pie.
C21_SelectionIsSelectable ==
    MLV.defined =>
        \/ MLV.selectedGenre = Str_all
        \/ /\ HasField(MLV.stats, "genre_counts")
           /\ \E i \in DOMAIN MLV.stats.genre_counts :
                  MLV.stats.genre_counts[i][1] = MLV.selectedGenre
           /\ ~IsUnknownWord(MLV.selectedGenre)

\* the statistics hold the key UNKNOWN and the user selected another of
\* their keys, the empty text
C21_Witness ==
    /\ MLV.defined
    /\ HasField(MLV.stats, "genre_counts")
    /\ HasKey(MLV.stats.genre_counts, Str_UNKNOWN)
    /\ MLV.selectedGenre = Str_empty
    /\ callLog # <<>>

-----------------------------------------------------------------------------
(* C22: the empty selection and the sentinel *)

\* the selection values that are empty or absent
EmptySelections == {Str_empty, JsNull}

\* applyGenreFilter has just run with an empty selection: the views are those
\* of the sentinel
EmptyRunShowsAll ==
    (AfterApply /\ MLV.defined /\ lastCall \in EmptySelections) =>
        dom = ViewsOf(MLV.stats, MLV.files, Str_all, tz)

\* from any state of the page, applyGenreFilter with an empty selection
\* leaves every view as applyGenreFilter('__all__') leaves it
EmptyCallShowsAll ==
    MLV.defined =>
        \A e \in EmptySelections :
            applyGenreFilter(MLV, dom, e, tz).dom = applyGenreFilter(MLV, dom, Str_all, tz).dom

\* C22: an empty or absent selection passed to applyGenreFilter gives in every
\* view, the select control included, the output the sentinel '__all__' gives.
C22_EmptySameAsAll == EmptyRunShowsAll /\ EmptyCallShowsAll

====
